---- MODULE Spec2Model ----
(***************************************************************************)
(* A model of two parts of libuv:                                          *)
(*   - the promise primitive of src/promise.c, a single-assignment future  *)
(*     guarded by one mutex and one condition variable;                    *)
(*   - the reactor of src/unix/core.c: uv_run, uv__run, uv__run_pending,   *)
(*     uv_close and uv__finish_close.                                      *)
(* The promise is checked under Spec and FairSpec, the reactor under       *)
(* LoopSpec.                                                               *)
(***************************************************************************)
EXTENDS Integers, Sequences, FiniteSets, TLC

(***************************************************************************)
(* Bounds of the model.                                                    *)
(***************************************************************************)
\* number of threads that use the promise
NThreads == 3
\* number of promise operations called in one run
MaxCalls == 4
\* number of spurious wakeups of uv_cond_wait in one run
MaxSpurious == 1

\* number of handles of the loop
NHandles == 2
\* number of requests that are active at one time
MaxReqs == 1
\* number of cycles of the loop in one run
MaxCycles == 3
\* number of corruptions of a handle in one run of the loop with faults
MaxFaults == 1
\* number of cycles of uv__run in one run of the loop with faults
MaxFaultCycles == 1

Threads == 1..NThreads
Handles == 1..NHandles

(***************************************************************************)
(* Values of the program.                                                  *)
(***************************************************************************)
EINVAL == 22

NULL == "NULL"
Values == {"ok", "v2"}
Codes == {-5, -7}
\* a failing uv_mutex_init and a failing uv_cond_init return a non-zero code
MutexInitErrors == {-12}
CondInitErrors == {-11}

PENDING == "PENDING"
FULFILLED == "FULFILLED"
BROKEN == "BROKEN"
CANCELLED == "CANCELLED"
Statuses == {PENDING, FULFILLED, BROKEN, CANCELLED}

\* the owner of a free mutex
NoThread == {}
NoRet == [op |-> "none"]
\* the argument of a call: the result of fulfil or the code of break
NoArg == [result |-> NULL, code |-> 0]
\* the value rs has in trywait before the mutex is tried
PendingSnapshot == [status |-> PENDING, code |-> 0, result |-> NULL]
\* the value rs has in get before the mutex is taken
CancelledSnapshot == [status |-> CANCELLED, code |-> 0, result |-> NULL]

\* the types of the handles the program registers with the loop
HandleTypes == {"TCP", "IDLE", "PREPARE"}
\* the types uv__run_pending has a dispatcher for
StreamTypes == {"NAMED_PIPE", "TCP", "TTY"}
\* the types uv_close and uv__finish_close know
KnownTypes == {"NAMED_PIPE", "TTY", "TCP", "UDP", "PREPARE", "CHECK", "IDLE",
               "ASYNC", "TIMER", "PROCESS", "FS_EVENT", "POLL"}
\* the type of a handle that uv__handle_init has not seen
NoType == "NONE"
\* a null handle pointer; a pointer to handle h is {h}
NoHandle == {}

VARIABLES
  \* ---- uv_promise_t
  status, result, code, waiting,
  mutexSt,      \* "uninit", "alive" or "destroyed"
  condSt,       \* "uninit", "alive" or "destroyed"
  owner,        \* the set of threads that hold the mutex: NoThread or {t}
  \* ---- the program around it
  life,         \* "uninit", "ready" (init returned 0) or "failed"
  initRet,      \* what uv_promise_init returned
  pc,           \* position of each thread
  arg,          \* argument of the call a thread is in
  ret,          \* what the last call of a thread returned
  aborted,      \* the process was ended by abort()
  destroyCalled,
  callsLeft, spuriousLeft,
  \* ---- history
  okCalls,      \* the fulfil and break calls that returned 0
  published,    \* the terminal transition that was made
  blockedAt,    \* threads asleep in uv_cond_wait when it was made
  lastSeen      \* per thread, the status its previous read returned

VARIABLES
  \* ---- uv_handle_t
  htype,            \* type of each handle
  flags,            \* subset of {"REF", "ACTIVE", "CLOSING", "CLOSED", "PENDING"}
  next_pending,     \* the link of the pending list
  close_cb,         \* "NULL" or "cb"
  \* ---- uv_loop_t
  pending_handles,  \* head of the pending list
  active_reqs,      \* number of active requests
  \* ---- uv_run
  lpc,              \* position of the loop thread
  p, q,             \* the locals of uv__run_pending
  block,            \* the argument of uv__poll
  polled,           \* the poller has seen an event
  runRet,           \* what uv_run returned
  \* ---- history
  cycle,            \* number of the cycle uv__run is in
  enq,              \* per handle, when it was put on the pending list
  procInCycle,      \* per handle, how often this cycle's drain took it
  procOfEnq,        \* per handle, how often it was taken since it was put
  procAt,           \* per handle, the cycle whose drain took it last
  procEnq,          \* per handle, the stamp it had when it was taken last
  drainSet,         \* the handles on the list that this cycle's drain detached
  runCycles,        \* cycles of the current call of uv_run
  emptyAtCall,      \* the loop had no handle and no request at that call
  closeCalls,       \* per handle, the calls of uv_close
  closedSets,       \* per handle, how often CLOSED was set
  cbCalls,          \* per handle, the calls of its close callback
  phases,           \* the phases uv__run has entered in this cycle, in order
  gate,             \* what the test after the drain found: "unset", "open", "shut"
  \* ---- the build and the faults
  ndebug,           \* the unit was compiled with NDEBUG: assert() is empty
  faultsLeft        \* corruptions of a handle that may still happen

handleV == <<htype, flags, next_pending, close_cb>>
loopV == <<pending_handles, active_reqs>>
runV == <<lpc, p, q, block, polled, runRet>>
drainHistV == <<enq, procInCycle, procOfEnq, procAt, procEnq, drainSet>>
runHistV == <<cycle, runCycles, emptyAtCall>>
closeHistV == <<closeCalls, closedSets, cbCalls>>
phaseHistV == <<phases, gate>>
buildV == <<ndebug, faultsLeft>>
lvars == <<handleV, loopV, runV, drainHistV, runHistV, closeHistV,
          phaseHistV, buildV>>

pvars == <<status, result, code, waiting, mutexSt, condSt, owner, life, initRet,
           pc, arg, ret, aborted, destroyCalled, callsLeft, spuriousLeft,
           okCalls, published, blockedAt, lastSeen>>

vars == <<pvars, lvars>>

Fields == [status |-> status, code |-> code, result |-> result]

(***************************************************************************)
(* State before uv_promise_init: the storage of the promise is the         *)
(* caller's and holds arbitrary values.                                    *)
(***************************************************************************)
PromiseStart ==
  /\ status \in Statuses
  /\ result \in {NULL, "ok"}
  /\ code \in {0, -5}
  /\ waiting \in {0, 1}
  /\ mutexSt = "uninit"
  /\ condSt = "uninit"
  /\ owner = NoThread
  /\ life = "uninit"
  /\ initRet = 0
  /\ pc = [t \in Threads |-> "idle"]
  /\ arg = [t \in Threads |-> NoArg]
  /\ ret = [t \in Threads |-> NoRet]
  /\ aborted = FALSE
  /\ destroyCalled = FALSE
  /\ callsLeft = MaxCalls
  /\ spuriousLeft = MaxSpurious
  /\ okCalls = {}
  /\ published = [kind |-> "none"]
  /\ blockedAt = {}
  /\ lastSeen = [t \in Threads |-> "NONE"]

\* the stamp of a handle that was never put on the pending list
NoStamp == [cycle |-> 0, phase |-> "none", by |-> "none"]

(***************************************************************************)
(* State of a loop after uv__loop_init, with no handle registered.         *)
(***************************************************************************)
LoopFieldsStart ==
  /\ htype = [h \in Handles |-> NoType]
  /\ flags = [h \in Handles |-> {}]
  /\ next_pending = [h \in Handles |-> NoHandle]
  /\ close_cb = [h \in Handles |-> "NULL"]
  /\ pending_handles = NoHandle
  /\ active_reqs = 0
  /\ lpc = "out"
  /\ p = NoHandle
  /\ q = NoHandle
  /\ block = FALSE
  /\ polled = FALSE
  /\ runRet = -1
  /\ cycle = 0
  /\ enq = [h \in Handles |-> NoStamp]
  /\ procInCycle = [h \in Handles |-> 0]
  /\ procOfEnq = [h \in Handles |-> 0]
  /\ procAt = [h \in Handles |-> 0]
  /\ procEnq = [h \in Handles |-> NoStamp]
  /\ drainSet = {}
  /\ runCycles = 0
  /\ emptyAtCall = FALSE
  /\ closeCalls = [h \in Handles |-> 0]
  /\ closedSets = [h \in Handles |-> 0]
  /\ cbCalls = [h \in Handles |-> 0]
  /\ phases = <<>>
  /\ gate = "unset"

\* a build with assert() in force, and a program and subsystems that keep
\* the handles intact
LoopStart == LoopFieldsStart /\ ndebug = FALSE /\ faultsLeft = 0

Init == PromiseStart /\ LoopStart

fieldV == <<status, result, code, waiting>>
primV == <<mutexSt, condSt>>
initV == <<life, initRet>>
histV == <<okCalls, published, blockedAt, lastSeen>>
callV == <<ret, callsLeft, destroyCalled, spuriousLeft>>

(***************************************************************************)
(* uv_promise_init                                                         *)
(***************************************************************************)
\* uv_promise_init that leaves the mutex allocated when uv_cond_init fails
uv_promise_init_LeakMutex(mrc, crc) ==
  /\ life = "uninit"
  /\ IF mrc # 0
       THEN /\ initRet' = mrc
            /\ life' = "failed"
            /\ UNCHANGED <<mutexSt, condSt, status, result, code, waiting>>
       ELSE /\ mutexSt' = "alive"
            /\ condSt' = (IF crc # 0 THEN "uninit" ELSE "alive")
            /\ status' = PENDING
            /\ result' = NULL
            /\ code' = 0
            /\ waiting' = 0
            /\ initRet' = crc
            /\ life' = (IF crc = 0 THEN "ready" ELSE "failed")
  /\ UNCHANGED <<owner, pc, arg, aborted, histV, callV>>

uv_promise_init(mrc, crc) ==
  /\ life = "uninit"
  /\ IF mrc # 0
       THEN /\ initRet' = mrc
            /\ life' = "failed"
            /\ UNCHANGED <<mutexSt, condSt, status, result, code, waiting>>
       ELSE /\ mutexSt' = (IF crc # 0 THEN "destroyed" ELSE "alive")
            /\ condSt' = (IF crc # 0 THEN "uninit" ELSE "alive")
            /\ status' = PENDING
            /\ result' = NULL
            /\ code' = 0
            /\ waiting' = 0
            /\ initRet' = crc
            /\ life' = (IF crc = 0 THEN "ready" ELSE "failed")
  /\ UNCHANGED <<owner, pc, arg, aborted, histV, callV>>

PromiseInit == \E mrc \in {0} \cup MutexInitErrors, crc \in {0} \cup CondInitErrors :
                 uv_promise_init(mrc, crc)

(***************************************************************************)
(* The primitives.  Locking a mutex that uv_mutex_destroy has released,    *)
(* and destroying a mutex that is held, are undefined: the build either    *)
(* goes on as if the mutex were intact or ends the process with abort().   *)
(***************************************************************************)
Running == life = "ready" /\ ~aborted

\* a call may start: the caller starts nothing once destroy has been called
CanCall(t) == Running /\ pc[t] = "idle" /\ callsLeft > 0 /\ ~destroyCalled

\* the start of a call by thread t, which goes to uv_mutex_lock
Call(t, to, a) ==
  /\ CanCall(t)
  /\ pc' = [pc EXCEPT ![t] = to]
  /\ arg' = [arg EXCEPT ![t] = a]
  /\ ret' = [ret EXCEPT ![t] = NoRet]
  /\ callsLeft' = callsLeft - 1
  /\ UNCHANGED <<fieldV, primV, initV, owner, histV, destroyCalled,
                 spuriousLeft, aborted>>

\* uv_mutex_lock by thread t at position from: it waits until the mutex is
\* free and goes on at position to; on a destroyed mutex it may also abort
MutexLock(t, from, to) ==
  /\ Running
  /\ pc[t] = from
  /\ \/ /\ owner = NoThread
        /\ owner' = {t}
        /\ pc' = [pc EXCEPT ![t] = to]
        /\ UNCHANGED aborted
     \/ /\ mutexSt = "destroyed"
        /\ aborted' = TRUE
        /\ UNCHANGED <<owner, pc>>
  /\ UNCHANGED <<fieldV, primV, initV, arg, histV, callV>>

\* uv_cond_broadcast: every thread asleep in uv_cond_wait is woken and has to
\* take the mutex again
Broadcast(f) == [t \in Threads |-> IF f[t] = "g_wait" THEN "g_relock" ELSE f[t]]

Asleep == {t \in Threads : pc[t] = "g_wait"}

\* the history of a terminal transition
Publish(kind, a) ==
  /\ published' = [kind |-> kind, result |-> a.result, code |-> a.code]
  /\ blockedAt' = Asleep

\* the return of rc by fulfil (op = "fulfil") or break, after uv_mutex_unlock
ReturnRc(t, op, r) ==
  /\ owner' = NoThread
  /\ ret' = [ret EXCEPT ![t] = [op |-> op, rc |-> r]]
  /\ okCalls' = IF r = 0 THEN okCalls \cup {[op |-> op, arg |-> arg[t]]}
                         ELSE okCalls
  /\ arg' = [arg EXCEPT ![t] = NoArg]
  /\ UNCHANGED <<lastSeen, callsLeft, destroyCalled, spuriousLeft>>

(***************************************************************************)
(* uv_promise_fulfil                                                       *)
(***************************************************************************)
CallFulfil(t, v) == Call(t, "f_lock", [result |-> v, code |-> 0])

FulfilLock(t) == MutexLock(t, "f_lock", "f_cs")

\* fulfil without the test of the status
FulfilBody_NoStatusCheck(t) ==
  /\ Running
  /\ pc[t] = "f_cs"
  /\ status' = FULFILLED
  /\ result' = arg[t].result
  /\ pc' = [IF waiting > 0 THEN Broadcast(pc) ELSE pc EXCEPT ![t] = "idle"]
  /\ Publish("fulfil", arg[t])
  /\ ReturnRc(t, "fulfil", 0)
  /\ UNCHANGED <<code, waiting, primV, initV, aborted>>

\* the do-while block, uv_mutex_unlock and the return
FulfilBody(t) ==
  /\ Running
  /\ pc[t] = "f_cs"
  /\ IF status # PENDING
       THEN /\ pc' = [pc EXCEPT ![t] = "idle"]
            /\ ReturnRc(t, "fulfil", -EINVAL)
            /\ UNCHANGED <<status, result, published, blockedAt>>
       ELSE /\ status' = FULFILLED
            /\ result' = arg[t].result
            /\ pc' = [IF waiting > 0 THEN Broadcast(pc) ELSE pc
                        EXCEPT ![t] = "idle"]
            /\ Publish("fulfil", arg[t])
            /\ ReturnRc(t, "fulfil", 0)
  /\ UNCHANGED <<code, waiting, primV, initV, aborted>>

(***************************************************************************)
(* uv_promise_break                                                        *)
(***************************************************************************)
CallBreak(t, c) == Call(t, "b_lock", [result |-> NULL, code |-> c])

BreakLock(t) == MutexLock(t, "b_lock", "b_cs")

\* the do-while block, uv_mutex_unlock and the return
BreakBody(t) ==
  /\ Running
  /\ pc[t] = "b_cs"
  /\ IF status # PENDING
       THEN /\ pc' = [pc EXCEPT ![t] = "idle"]
            /\ ReturnRc(t, "break", -EINVAL)
            /\ UNCHANGED <<status, code, published, blockedAt>>
       ELSE /\ status' = BROKEN
            /\ code' = arg[t].code
            /\ pc' = [IF waiting > 0 THEN Broadcast(pc) ELSE pc
                        EXCEPT ![t] = "idle"]
            /\ Publish("break", arg[t])
            /\ ReturnRc(t, "break", 0)
  /\ UNCHANGED <<result, waiting, primV, initV, aborted>>

(***************************************************************************)
(* uv_promise_get                                                          *)
(***************************************************************************)
CallGet(t) == Call(t, "g_lock", NoArg)

GetLock(t) == MutexLock(t, "g_lock", "g_inc")

\* get that does not count itself as a waiter
GetInc_NoIncrement(t) ==
  /\ Running
  /\ pc[t] = "g_inc"
  /\ pc' = [pc EXCEPT ![t] = "g_test"]
  /\ UNCHANGED <<status, result, code, waiting, primV, initV, owner, arg, histV,
                 callV, aborted>>

\* handle->waiting++
GetInc(t) ==
  /\ Running
  /\ pc[t] = "g_inc"
  /\ waiting' = waiting + 1
  /\ pc' = [pc EXCEPT ![t] = "g_test"]
  /\ UNCHANGED <<status, result, code, primV, initV, owner, arg, histV, callV,
                 aborted>>

\* the test of the while loop with the comparison inverted
GetWaits_Inverted == status # PENDING

\* the test of the while loop: while the status is PENDING uv_cond_wait
\* releases the mutex and sleeps
GetWaits == status = PENDING

\* one test of the while loop, then either uv_cond_wait or the rest of get:
\* the decrement, the snapshot, uv_mutex_unlock and the return
GetTest(t) ==
  /\ Running
  /\ pc[t] = "g_test"
  /\ owner' = NoThread
  /\ IF GetWaits
       THEN /\ pc' = [pc EXCEPT ![t] = "g_wait"]
            /\ UNCHANGED <<waiting, ret, lastSeen>>
       ELSE /\ pc' = [pc EXCEPT ![t] = "idle"]
            /\ waiting' = waiting - 1
            /\ ret' = [ret EXCEPT ![t] = [op |-> "get", rs |-> Fields]]
            /\ lastSeen' = [lastSeen EXCEPT ![t] = status]
  /\ UNCHANGED <<status, result, code, primV, initV, arg, okCalls, published,
                 blockedAt, callsLeft, destroyCalled, spuriousLeft, aborted>>

\* uv_cond_wait may return without a broadcast
SpuriousWake(t) ==
  /\ Running
  /\ pc[t] = "g_wait"
  /\ spuriousLeft > 0
  /\ spuriousLeft' = spuriousLeft - 1
  /\ pc' = [pc EXCEPT ![t] = "g_relock"]
  /\ UNCHANGED <<fieldV, primV, initV, owner, arg, histV, ret, callsLeft,
                 destroyCalled, aborted>>

\* uv_cond_wait takes the mutex again before it returns
GetRelock(t) == MutexLock(t, "g_relock", "g_test")

(***************************************************************************)
(* uv_promise_trywait                                                      *)
(***************************************************************************)
\* trywait that takes the mutex with uv_mutex_lock
TrywaitTry_Blocking(t) ==
  /\ CanCall(t)
  /\ callsLeft' = callsLeft - 1
  /\ owner = NoThread
  /\ owner' = {t}
  /\ pc' = [pc EXCEPT ![t] = "t_read"]
  /\ ret' = [ret EXCEPT ![t] = NoRet]
  /\ UNCHANGED <<fieldV, primV, initV, arg, histV, destroyCalled, spuriousLeft,
                 aborted>>

\* the call and uv_mutex_trylock: when the mutex is held the call returns rs
\* as initialised
TrywaitTry(t) ==
  /\ CanCall(t)
  /\ callsLeft' = callsLeft - 1
  /\ IF owner = NoThread
       THEN /\ owner' = {t}
            /\ pc' = [pc EXCEPT ![t] = "t_read"]
            /\ ret' = [ret EXCEPT ![t] = NoRet]
            /\ UNCHANGED lastSeen
       ELSE /\ ret' = [ret EXCEPT ![t] = [op |-> "trywait", locked |-> FALSE,
                                           rs |-> PendingSnapshot,
                                           real |-> status]]
            /\ lastSeen' = [lastSeen EXCEPT ![t] = PENDING]
            /\ UNCHANGED <<owner, pc>>
  /\ UNCHANGED <<fieldV, primV, initV, arg, okCalls, published, blockedAt,
                 destroyCalled, spuriousLeft, aborted>>

\* the snapshot, uv_mutex_unlock and the return
TrywaitRead(t) ==
  /\ Running
  /\ pc[t] = "t_read"
  /\ owner' = NoThread
  /\ pc' = [pc EXCEPT ![t] = "idle"]
  /\ ret' = [ret EXCEPT ![t] = [op |-> "trywait", locked |-> TRUE,
                                 rs |-> Fields, real |-> status]]
  /\ lastSeen' = [lastSeen EXCEPT ![t] = status]
  /\ UNCHANGED <<fieldV, primV, initV, arg, okCalls, published, blockedAt,
                 callsLeft, destroyCalled, spuriousLeft, aborted>>

(***************************************************************************)
(* uv_promise_destroy                                                      *)
(***************************************************************************)
CallDestroy(t) ==
  /\ CanCall(t)
  /\ destroyCalled' = TRUE
  /\ callsLeft' = callsLeft - 1
  /\ pc' = [pc EXCEPT ![t] = "d_lock"]
  /\ ret' = [ret EXCEPT ![t] = NoRet]
  /\ UNCHANGED <<fieldV, primV, initV, owner, arg, histV, spuriousLeft, aborted>>

DestroyLock(t) == MutexLock(t, "d_lock", "d_cs")

\* destroy that cancels whatever the status is
DestroyBody_AlwaysCancel(t) ==
  /\ Running
  /\ pc[t] = "d_cs"
  /\ status' = CANCELLED
  /\ Publish("destroy", NoArg)
  /\ pc' = [IF waiting > 0 THEN Broadcast(pc) ELSE pc EXCEPT ![t] = "d_mutex"]
  /\ owner' = NoThread
  /\ UNCHANGED <<result, code, waiting, primV, initV, arg, okCalls, lastSeen,
                 callV, aborted>>

\* the two tests under the mutex, and uv_mutex_unlock
DestroyBody(t) ==
  /\ Running
  /\ pc[t] = "d_cs"
  /\ IF status = PENDING
       THEN /\ status' = CANCELLED
            /\ Publish("destroy", NoArg)
       ELSE UNCHANGED <<status, published, blockedAt>>
  /\ pc' = [IF waiting > 0 THEN Broadcast(pc) ELSE pc EXCEPT ![t] = "d_mutex"]
  /\ owner' = NoThread
  /\ UNCHANGED <<result, code, waiting, primV, initV, arg, okCalls, lastSeen,
                 callV, aborted>>

\* uv_mutex_destroy: of a mutex that a woken waiter holds again it is
\* undefined, and may end the process
DestroyMutex(t) ==
  /\ Running
  /\ pc[t] = "d_mutex"
  /\ \/ /\ mutexSt' = "destroyed"
        /\ pc' = [pc EXCEPT ![t] = "d_cond"]
        /\ UNCHANGED aborted
     \/ /\ owner # NoThread
        /\ aborted' = TRUE
        /\ UNCHANGED <<mutexSt, pc>>
  /\ UNCHANGED <<fieldV, condSt, initV, owner, arg, histV, callV>>

\* uv_cond_destroy and the return
DestroyCond(t) ==
  /\ Running
  /\ pc[t] = "d_cond"
  /\ condSt' = "destroyed"
  /\ pc' = [pc EXCEPT ![t] = "idle"]
  /\ ret' = [ret EXCEPT ![t] = [op |-> "destroy"]]
  /\ UNCHANGED <<fieldV, mutexSt, initV, owner, arg, histV, callsLeft,
                 destroyCalled, spuriousLeft, aborted>>

(***************************************************************************)
(* The promise and the threads that use it.                                *)
(***************************************************************************)
ThreadStep(t) ==
  \/ \E v \in Values : CallFulfil(t, v)
  \/ FulfilLock(t) \/ FulfilBody(t)
  \/ \E c \in Codes : CallBreak(t, c)
  \/ BreakLock(t) \/ BreakBody(t)
  \/ CallGet(t) \/ GetLock(t) \/ GetInc(t) \/ GetTest(t) \/ GetRelock(t)
  \/ TrywaitTry(t) \/ TrywaitRead(t)
  \/ CallDestroy(t) \/ DestroyLock(t) \/ DestroyBody(t) \/ DestroyMutex(t)
  \/ DestroyCond(t)

PromiseNext ==
  \/ PromiseInit
  \/ \E t \in Threads : ThreadStep(t)
  \/ \E t \in Threads : SpuriousWake(t)

Next == PromiseNext /\ UNCHANGED lvars

Spec == Init /\ [][Next]_vars

\* the steps thread t takes inside an operation it has called
ThreadProgress(t) ==
  /\ \/ FulfilLock(t) \/ FulfilBody(t)
     \/ BreakLock(t) \/ BreakBody(t)
     \/ GetLock(t) \/ GetInc(t) \/ GetTest(t) \/ GetRelock(t)
     \/ TrywaitRead(t)
     \/ DestroyLock(t) \/ DestroyBody(t) \/ DestroyMutex(t) \/ DestroyCond(t)
  /\ UNCHANGED lvars

\* the scheduler runs every thread that can take a step; nothing makes a
\* thread call an operation
FairSpec == Spec /\ \A t \in Threads : WF_vars(ThreadProgress(t))

(***************************************************************************)
(* The reactor: the helpers of uv-common.h and internal.h.                 *)
(***************************************************************************)
\* uv__is_active
uv__is_active(h) == "ACTIVE" \in flags[h]

\* loop->active_handles: the handles that are active and referenced
ActiveHandles == {h \in Handles : {"ACTIVE", "REF"} \subseteq flags[h]}

\* loop->idle_handles: the idle handles that are started
IdleHandles == {h \in Handles : htype[h] = "IDLE" /\ "ACTIVE" \in flags[h]}

\* loop->prepare_handles: the prepare handles that are started
PrepareHandles == {h \in Handles : htype[h] = "PREPARE" /\ "ACTIVE" \in flags[h]}

\* the active handles the poller watches: not the hooks of a phase
Watched ==
  {h \in Handles : htype[h] \notin {"IDLE", "PREPARE", "CHECK"} /\ "ACTIVE" \in flags[h]}

uv__has_active_handles == ActiveHandles # {}
uv__has_active_reqs == active_reqs > 0
uv__has_pending_handles == pending_handles # NoHandle

\* the handles linked from ptr, ptr's handle first
RECURSIVE ListFrom(_, _)
ListFrom(ptr, seen) ==
  IF ptr = NoHandle \/ ptr \subseteq seen
    THEN seen
    ELSE ListFrom(next_pending[CHOOSE h \in ptr : TRUE], seen \cup ptr)

\* when, in terms of the cycle, the loop thread is
StampPhase ==
  CASE lpc \in {"idle", "pending"} -> "before"
    [] lpc \in {"drain", "finish", "closecb", "unref", "dispatch"} -> "drain"
    [] lpc \in {"gate", "prepare", "poll", "check", "ret"} -> "after"
    [] OTHER -> "out"

\* uv__make_pending, applied to the flags fl: a handle that is PENDING is
\* on the list already and is left where it is
uv__make_pending(h, fl) ==
  IF "PENDING" \in fl[h]
    THEN /\ flags' = fl
         /\ UNCHANGED <<next_pending, pending_handles, enq, procOfEnq>>
    ELSE /\ flags' = [fl EXCEPT ![h] = @ \cup {"PENDING"}]
         /\ next_pending' = [next_pending EXCEPT ![h] = pending_handles]
         /\ pending_handles' = {h}
         /\ enq' = [enq EXCEPT ![h] =
                      [cycle |-> cycle, phase |-> StampPhase,
                       by |-> IF "CLOSING" \in fl[h] THEN "close" ELSE "event"]]
         /\ procOfEnq' = [procOfEnq EXCEPT ![h] = 0]

(***************************************************************************)
(* What the program does with the loop, before uv_run and in callbacks.    *)
(***************************************************************************)
\* the loop thread runs code of the program: outside uv_run, in the callback
\* of an idle handle, of a stream, of a closed handle, of a prepare handle, or
\* of the poller
UserContext ==
  \/ lpc = "out"
  \/ lpc = "idle" /\ IdleHandles # {}
  \/ lpc \in {"closecb", "dispatch"}
  \/ lpc = "prepare" /\ PrepareHandles # {}
  \/ lpc = "poll" /\ (Watched # {} \/ uv__has_active_reqs)

\* the poller has delivered an event when a callback runs in it
Polled == polled' = (polled \/ lpc = "poll")

uv__handle_init(h, type) ==
  /\ UserContext
  /\ htype[h] = NoType
  /\ htype' = [htype EXCEPT ![h] = type]
  /\ flags' = [flags EXCEPT ![h] = {"REF"}]
  /\ next_pending' = [next_pending EXCEPT ![h] = NoHandle]
  /\ Polled
  /\ UNCHANGED <<close_cb, loopV, lpc, p, q, block, runRet, drainHistV, runHistV>>
  /\ UNCHANGED closeHistV
  /\ UNCHANGED phaseHistV
  /\ UNCHANGED buildV

\* uv__handle_start, from uv_timer_start, uv_idle_start, uv_read_start
HandleStart(h) ==
  /\ UserContext
  /\ htype[h] # NoType
  /\ flags[h] \cap {"ACTIVE", "CLOSING", "CLOSED"} = {}
  /\ flags' = [flags EXCEPT ![h] = @ \cup {"ACTIVE"}]
  /\ Polled
  /\ UNCHANGED <<htype, next_pending, close_cb, loopV, lpc, p, q, block, runRet,
                 drainHistV, runHistV>>
  /\ UNCHANGED closeHistV
  /\ UNCHANGED phaseHistV
  /\ UNCHANGED buildV

\* uv__handle_stop
HandleStop(h) ==
  /\ UserContext
  /\ "ACTIVE" \in flags[h]
  /\ flags' = [flags EXCEPT ![h] = @ \ {"ACTIVE"}]
  /\ Polled
  /\ UNCHANGED <<htype, next_pending, close_cb, loopV, lpc, p, q, block, runRet,
                 drainHistV, runHistV>>
  /\ UNCHANGED closeHistV
  /\ UNCHANGED phaseHistV
  /\ UNCHANGED buildV

\* a stream has an event to deliver in the next drain
StreamEvent(h) ==
  /\ UserContext
  /\ htype[h] \in StreamTypes
  /\ flags[h] \cap {"CLOSING", "CLOSED", "PENDING"} = {}
  /\ uv__make_pending(h, flags)
  /\ Polled
  /\ UNCHANGED <<htype, close_cb, active_reqs, lpc, p, q, block, runRet,
                 procInCycle, procAt, procEnq, drainSet, runHistV>>
  /\ UNCHANGED closeHistV
  /\ UNCHANGED phaseHistV
  /\ UNCHANGED buildV

\* uv__req_init, from uv_getaddrinfo
ReqStart ==
  /\ UserContext
  /\ active_reqs < MaxReqs
  /\ active_reqs' = active_reqs + 1
  /\ Polled
  /\ UNCHANGED <<handleV, pending_handles, lpc, p, q, block, runRet, drainHistV,
                 runHistV>>
  /\ UNCHANGED closeHistV
  /\ UNCHANGED phaseHistV
  /\ UNCHANGED buildV

\* uv__req_unregister, from uv_getaddrinfo_done
ReqDone ==
  /\ lpc = "poll"
  /\ active_reqs > 0
  /\ active_reqs' = active_reqs - 1
  /\ polled' = TRUE
  /\ UNCHANGED <<handleV, pending_handles, lpc, p, q, block, runRet, drainHistV,
                 runHistV>>
  /\ UNCHANGED closeHistV
  /\ UNCHANGED phaseHistV
  /\ UNCHANGED buildV

\* a callback of the poller that leaves the loop as it is
PollEvent ==
  /\ lpc = "poll"
  /\ Watched # {} \/ uv__has_active_reqs
  /\ ~polled
  /\ polled' = TRUE
  /\ UNCHANGED <<handleV, loopV, lpc, p, q, block, runRet, drainHistV, runHistV>>
  /\ UNCHANGED closeHistV
  /\ UNCHANGED phaseHistV
  /\ UNCHANGED buildV

(***************************************************************************)
(* uv_close                                                                *)
(***************************************************************************)
\* the close routine of the type stops the handle
TypeClose(fl, h) == [fl EXCEPT ![h] = @ \ {"ACTIVE"}]

\* the program closes a handle once
uv_close(h, cb) ==
  /\ UserContext
  /\ htype[h] # NoType
  /\ flags[h] \cap {"CLOSING", "CLOSED"} = {}
  /\ close_cb' = [close_cb EXCEPT ![h] = cb]
  /\ closeCalls' = [closeCalls EXCEPT ![h] = @ + 1]
  /\ UNCHANGED <<closedSets, cbCalls>>
  /\ IF htype[h] \notin KnownTypes /\ ~ndebug
       THEN /\ lpc' = "aborted"
            /\ UNCHANGED <<flags, next_pending, pending_handles, enq, procOfEnq,
                           polled>>
       ELSE /\ uv__make_pending(h, [(IF htype[h] \in KnownTypes
                                       THEN TypeClose(flags, h) ELSE flags)
                                      EXCEPT ![h] = @ \cup {"CLOSING"}])
            /\ Polled
            /\ UNCHANGED lpc
  /\ UNCHANGED <<htype, active_reqs, p, q, block, runRet, procInCycle, procAt,
                 procEnq, drainSet, runHistV>>
  /\ UNCHANGED phaseHistV
  /\ UNCHANGED buildV

(***************************************************************************)
(* uv_run, uv__run                                                         *)
(***************************************************************************)
\* uv__run without the test of the pending queue
uv__run_result_NoPending == uv__has_active_handles \/ uv__has_active_reqs

\* the value uv__run returns
uv__run_result ==
  uv__has_pending_handles \/ uv__has_active_handles \/ uv__has_active_reqs

\* the test before prepare, poll and check
WorkGate == uv__has_active_handles \/ uv__has_active_reqs

\* uv__should_block that does not look at the idle handles
uv__should_block_IgnoresIdle == ActiveHandles # {}

uv__should_block == IdleHandles = {} /\ ActiveHandles # {}

\* uv__run begins a cycle
\* uv__run that begins with uv__run_pending and leaves uv__run_idle out
StartCycle_PendingFirst ==
  /\ cycle < MaxCycles
  /\ cycle' = cycle + 1
  /\ lpc' = "pending"
  /\ phases' = <<"pending">>
  /\ gate' = "unset"
  /\ procInCycle' = [h \in Handles |-> 0]
  /\ drainSet' = {}

StartCycle ==
  /\ cycle < MaxCycles
  /\ cycle' = cycle + 1
  /\ lpc' = "idle"
  /\ phases' = <<"idle">>
  /\ gate' = "unset"
  /\ procInCycle' = [h \in Handles |-> 0]
  /\ drainSet' = {}

uv_run ==
  /\ lpc = "out"
  /\ StartCycle
  /\ runCycles' = 1
  /\ runRet' = -1
  /\ emptyAtCall' = (/\ \A h \in Handles : htype[h] = NoType
                     /\ active_reqs = 0
                     /\ pending_handles = NoHandle)
  /\ UNCHANGED <<handleV, loopV, p, q, block, polled, enq, procOfEnq, procAt,
                 procEnq>>
  /\ UNCHANGED closeHistV
  /\ UNCHANGED buildV

\* uv__run_idle has run the idle callbacks
RunIdle ==
  /\ lpc = "idle"
  /\ lpc' = "pending"
  /\ phases' = Append(phases, "pending")
  /\ UNCHANGED gate
  /\ UNCHANGED <<handleV, loopV, p, q, block, polled, runRet, drainHistV, runHistV>>
  /\ UNCHANGED closeHistV
  /\ UNCHANGED buildV

\* uv__run_pending that leaves the head of the loop's list in place
RunPendingDetach_KeepsHead ==
  /\ lpc = "pending"
  /\ IF pending_handles = NoHandle
       THEN /\ lpc' = "gate"
            /\ UNCHANGED <<p, drainSet>>
       ELSE /\ p' = pending_handles
            /\ drainSet' = ListFrom(pending_handles, {})
            /\ lpc' = "drain"
  /\ UNCHANGED <<handleV, loopV, q, block, polled, runRet, enq,
                 procInCycle, procOfEnq, procAt, procEnq, runHistV>>
  /\ UNCHANGED closeHistV
  /\ UNCHANGED phaseHistV
  /\ UNCHANGED buildV

\* uv__run_pending: nothing to do, or the whole list is detached
RunPendingDetach ==
  /\ lpc = "pending"
  /\ IF pending_handles = NoHandle
       THEN /\ lpc' = "gate"
            /\ UNCHANGED <<p, pending_handles, drainSet>>
       ELSE /\ p' = pending_handles
            /\ pending_handles' = NoHandle
            /\ drainSet' = ListFrom(pending_handles, {})
            /\ lpc' = "drain"
  /\ UNCHANGED <<handleV, active_reqs, q, block, polled, runRet, enq,
                 procInCycle, procOfEnq, procAt, procEnq, runHistV>>
  /\ UNCHANGED closeHistV
  /\ UNCHANGED phaseHistV
  /\ UNCHANGED buildV

\* uv__run_pending that looks at the type before it looks at CLOSING
RunPendingTake_TypeFirst ==
  /\ lpc = "drain"
  /\ IF p = NoHandle
       THEN /\ lpc' = "gate"
            /\ UNCHANGED <<q, flags, next_pending, procInCycle, procOfEnq,
                           procAt, procEnq>>
       ELSE LET h == CHOOSE x \in p : TRUE IN
            /\ q' = next_pending[h]
            /\ next_pending' = [next_pending EXCEPT ![h] = NoHandle]
            /\ flags' = [flags EXCEPT ![h] = @ \ {"PENDING"}]
            /\ procInCycle' = [procInCycle EXCEPT ![h] = @ + 1]
            /\ procOfEnq' = [procOfEnq EXCEPT ![h] = @ + 1]
            /\ procAt' = [procAt EXCEPT ![h] = cycle]
            /\ procEnq' = [procEnq EXCEPT ![h] = enq[h]]
            /\ lpc' = IF htype[h] \in StreamTypes THEN "dispatch"
                      ELSE IF "CLOSING" \in flags[h] THEN "finish"
                      ELSE "aborted"
  /\ UNCHANGED <<htype, close_cb, loopV, p, block, polled, runRet, enq, drainSet,
                 runHistV>>
  /\ UNCHANGED closeHistV
  /\ UNCHANGED phaseHistV
  /\ UNCHANGED buildV

\* uv__run_pending that leaves the next_pending link of the handle it takes
RunPendingTake_KeepsLink ==
  /\ lpc = "drain"
  /\ IF p = NoHandle
       THEN /\ lpc' = "gate"
            /\ UNCHANGED <<q, flags, next_pending, procInCycle, procOfEnq,
                           procAt, procEnq>>
       ELSE LET h == CHOOSE x \in p : TRUE IN
            /\ q' = next_pending[h]
            /\ UNCHANGED next_pending
            /\ flags' = [flags EXCEPT ![h] = @ \ {"PENDING"}]
            /\ procInCycle' = [procInCycle EXCEPT ![h] = @ + 1]
            /\ procOfEnq' = [procOfEnq EXCEPT ![h] = @ + 1]
            /\ procAt' = [procAt EXCEPT ![h] = cycle]
            /\ procEnq' = [procEnq EXCEPT ![h] = enq[h]]
            /\ lpc' = IF "CLOSING" \in flags[h] THEN "finish"
                      ELSE IF htype[h] \in StreamTypes THEN "dispatch"
                      ELSE "aborted"
  /\ UNCHANGED <<htype, close_cb, loopV, p, block, polled, runRet, enq, drainSet,
                 runHistV>>
  /\ UNCHANGED closeHistV
  /\ UNCHANGED phaseHistV
  /\ UNCHANGED buildV

\* one turn of the for loop: the handle is unlinked, PENDING is cleared, and
\* it goes to uv__finish_close or to the dispatcher of its type
RunPendingTake ==
  /\ lpc = "drain"
  /\ IF p = NoHandle
       THEN /\ lpc' = "gate"
            /\ UNCHANGED <<q, flags, next_pending, procInCycle, procOfEnq,
                           procAt, procEnq>>
       ELSE LET h == CHOOSE x \in p : TRUE IN
            /\ q' = next_pending[h]
            /\ next_pending' = [next_pending EXCEPT ![h] = NoHandle]
            /\ flags' = [flags EXCEPT ![h] = @ \ {"PENDING"}]
            /\ procInCycle' = [procInCycle EXCEPT ![h] = @ + 1]
            /\ procOfEnq' = [procOfEnq EXCEPT ![h] = @ + 1]
            /\ procAt' = [procAt EXCEPT ![h] = cycle]
            /\ procEnq' = [procEnq EXCEPT ![h] = enq[h]]
            /\ lpc' = IF "CLOSING" \in flags[h] THEN "finish"
                      ELSE IF htype[h] \in StreamTypes THEN "dispatch"
                      ELSE "aborted"
  /\ UNCHANGED <<htype, close_cb, loopV, p, block, polled, runRet, enq, drainSet,
                 runHistV>>
  /\ UNCHANGED closeHistV
  /\ UNCHANGED phaseHistV
  /\ UNCHANGED buildV

\* uv__stream_pending has run the callbacks of the stream
DispatchReturn ==
  /\ lpc = "dispatch"
  /\ p' = q
  /\ lpc' = "drain"
  /\ UNCHANGED <<handleV, loopV, q, block, polled, runRet, drainHistV, runHistV>>
  /\ UNCHANGED closeHistV
  /\ UNCHANGED phaseHistV
  /\ UNCHANGED buildV

\* uv__finish_close that does not call the close callback
FinishClose_NoCallback ==
  /\ lpc = "finish"
  /\ LET h == CHOOSE x \in p : TRUE IN
       IF /\ ~ndebug
          /\ \/ uv__is_active(h)
             \/ "CLOSING" \notin flags[h]
             \/ "CLOSED" \in flags[h]
             \/ htype[h] \notin KnownTypes
         THEN /\ lpc' = "aborted"
              /\ UNCHANGED <<flags, closedSets>>
         ELSE /\ flags' = [flags EXCEPT ![h] = @ \cup {"CLOSED"}]
              /\ closedSets' = [closedSets EXCEPT ![h] = @ + 1]
              /\ lpc' = "unref"
  /\ UNCHANGED <<closeCalls, cbCalls>>
  /\ UNCHANGED <<htype, next_pending, close_cb, loopV, p, q, block, polled,
                 runRet, drainHistV, runHistV>>
  /\ UNCHANGED phaseHistV
  /\ UNCHANGED buildV

\* uv__finish_close up to the close callback
FinishClose ==
  /\ lpc = "finish"
  /\ LET h == CHOOSE x \in p : TRUE IN
       IF /\ ~ndebug
          /\ \/ uv__is_active(h)
             \/ "CLOSING" \notin flags[h]
             \/ "CLOSED" \in flags[h]
             \/ htype[h] \notin KnownTypes
         THEN /\ lpc' = "aborted"
              /\ UNCHANGED <<flags, closedSets, cbCalls>>
         ELSE /\ flags' = [flags EXCEPT ![h] = @ \cup {"CLOSED"}]
              /\ closedSets' = [closedSets EXCEPT ![h] = @ + 1]
              /\ IF close_cb[h] = "NULL"
                   THEN lpc' = "unref" /\ UNCHANGED cbCalls
                   ELSE /\ lpc' = "closecb"
                        /\ cbCalls' = [cbCalls EXCEPT ![h] = @ + 1]
  /\ UNCHANGED closeCalls
  /\ UNCHANGED <<htype, next_pending, close_cb, loopV, p, q, block, polled,
                 runRet, drainHistV, runHistV>>
  /\ UNCHANGED phaseHistV
  /\ UNCHANGED buildV

\* the close callback returns
CloseCbReturn ==
  /\ lpc = "closecb"
  /\ lpc' = "unref"
  /\ UNCHANGED <<handleV, loopV, p, q, block, polled, runRet, drainHistV, runHistV>>
  /\ UNCHANGED closeHistV
  /\ UNCHANGED phaseHistV
  /\ UNCHANGED buildV

\* uv__handle_unref, and the next turn of the for loop
FinishCloseUnref ==
  /\ lpc = "unref"
  /\ LET h == CHOOSE x \in p : TRUE IN
       flags' = [flags EXCEPT ![h] = @ \ {"REF"}]
  /\ p' = q
  /\ lpc' = "drain"
  /\ UNCHANGED <<htype, next_pending, close_cb, loopV, q, block, polled, runRet,
                 drainHistV, runHistV>>
  /\ UNCHANGED closeHistV
  /\ UNCHANGED phaseHistV
  /\ UNCHANGED buildV

\* uv__run without the test after the drain
RunGate_NoTest ==
  /\ lpc = "gate"
  /\ lpc' = "prepare"
  /\ phases' = Append(phases, "prepare")
  /\ gate' = IF (\E h \in Handles : "ACTIVE" \in flags[h]) \/ active_reqs > 0
              THEN "open" ELSE "shut"
  /\ UNCHANGED <<handleV, loopV, p, q, block, polled, runRet, drainHistV, runHistV>>
  /\ UNCHANGED closeHistV
  /\ UNCHANGED buildV

\* the test of uv__run after the drain
RunGate ==
  /\ lpc = "gate"
  /\ lpc' = IF WorkGate THEN "prepare" ELSE "ret"
  /\ phases' = IF WorkGate THEN Append(phases, "prepare") ELSE phases
  /\ gate' = IF (\E h \in Handles : "ACTIVE" \in flags[h]) \/ active_reqs > 0
              THEN "open" ELSE "shut"
  /\ UNCHANGED <<handleV, loopV, p, q, block, polled, runRet, drainHistV, runHistV>>
  /\ UNCHANGED closeHistV
  /\ UNCHANGED buildV

\* uv__run_prepare, then the call of uv__poll
RunPrepare ==
  /\ lpc = "prepare"
  /\ phases' = Append(phases, "poll")
  /\ UNCHANGED gate
  /\ block' = uv__should_block
  /\ polled' = FALSE
  /\ lpc' = "poll"
  /\ UNCHANGED <<handleV, loopV, p, q, runRet, drainHistV, runHistV>>
  /\ UNCHANGED closeHistV
  /\ UNCHANGED buildV

\* uv__poll returns: at once when it does not block, after an event when it
\* does
RunPoll ==
  /\ lpc = "poll"
  /\ phases' = Append(phases, "check")
  /\ UNCHANGED gate
  /\ block => polled
  /\ block' = FALSE
  /\ polled' = FALSE
  /\ lpc' = "check"
  /\ UNCHANGED <<handleV, loopV, p, q, runRet, drainHistV, runHistV>>
  /\ UNCHANGED closeHistV
  /\ UNCHANGED buildV

RunCheck ==
  /\ lpc = "check"
  /\ lpc' = "ret"
  /\ UNCHANGED <<handleV, loopV, p, q, block, polled, runRet, drainHistV, runHistV>>
  /\ UNCHANGED closeHistV
  /\ UNCHANGED phaseHistV
  /\ UNCHANGED buildV

\* uv__run returns and uv_run either runs another cycle or returns 0
RunReturn ==
  /\ lpc = "ret"
  /\ IF uv__run_result
       THEN /\ StartCycle
            /\ runCycles' = runCycles + 1
            /\ UNCHANGED runRet
       ELSE /\ lpc' = "returned"
            /\ runRet' = 0
            /\ UNCHANGED <<cycle, runCycles, procInCycle, drainSet, phaseHistV>>
  /\ UNCHANGED <<handleV, loopV, p, q, block, polled, enq, procOfEnq, procAt,
                 procEnq, emptyAtCall>>
  /\ UNCHANGED closeHistV
  /\ UNCHANGED buildV

\* the program goes on after uv_run
AfterRun ==
  /\ lpc = "returned"
  /\ lpc' = "out"
  /\ UNCHANGED <<handleV, loopV, p, q, block, polled, runRet, drainHistV, runHistV>>
  /\ UNCHANGED closeHistV
  /\ UNCHANGED phaseHistV
  /\ UNCHANGED buildV

UserOp ==
  \/ \E h \in Handles, ty \in HandleTypes : uv__handle_init(h, ty)
  \/ \E h \in Handles : HandleStart(h) \/ HandleStop(h) \/ StreamEvent(h)
  \/ \E h \in Handles, cb \in {"NULL", "cb"} : uv_close(h, cb)
  \/ ReqStart

LoopNext ==
  \/ UserOp
  \/ ReqDone \/ PollEvent
  \/ uv_run \/ RunIdle \/ RunPendingDetach \/ RunPendingTake \/ DispatchReturn
  \/ FinishClose \/ CloseCbReturn \/ FinishCloseUnref
  \/ RunGate \/ RunPrepare \/ RunPoll \/ RunCheck \/ RunReturn \/ AfterRun

\* the promise is not used while the loop is checked
LoopInit == Init /\ status = PENDING /\ result = NULL /\ code = 0 /\ waiting = 0

LoopSpec == LoopInit /\ [][LoopNext /\ UNCHANGED pvars]_vars

\* the steps the loop thread takes by itself: the program calls uv_run, the
\* phases follow one another and every callback returns
LoopProgress ==
  /\ \/ uv_run \/ RunIdle \/ RunPendingDetach \/ RunPendingTake
     \/ DispatchReturn \/ FinishClose \/ CloseCbReturn \/ FinishCloseUnref
     \/ RunGate \/ RunPrepare \/ RunPoll \/ RunCheck \/ RunReturn \/ AfterRun
  /\ UNCHANGED pvars

\* the loop thread runs on and a request that was started completes; nothing
\* makes a handle that is active produce an event
LoopFairSpec ==
  /\ LoopSpec
  /\ WF_vars(LoopProgress)
  /\ WF_vars(ReqDone /\ UNCHANGED pvars)

(***************************************************************************)
(* The loop with faults: the handle is corrupted behind the back of        *)
(* uv_close and of the drain, in either build of the unit.                 *)
(***************************************************************************)
\* the type field of a handle that is in use is overwritten
FaultType(h) ==
  /\ UserContext
  /\ faultsLeft > 0
  /\ htype[h] \in HandleTypes
  /\ "CLOSED" \notin flags[h]
  /\ htype' = [htype EXCEPT ![h] = "UNKNOWN"]
  /\ faultsLeft' = faultsLeft - 1
  /\ Polled
  /\ UNCHANGED <<flags, next_pending, close_cb, loopV, lpc, p, q, block, runRet,
                 drainHistV, runHistV, closeHistV, phaseHistV, ndebug>>

\* a subsystem makes a handle pending that has no dispatcher and is not
\* closing
FaultPending(h) ==
  /\ UserContext
  /\ faultsLeft > 0
  /\ htype[h] \in HandleTypes \ StreamTypes
  /\ flags[h] \cap {"PENDING", "CLOSING", "CLOSED"} = {}
  /\ uv__make_pending(h, flags)
  /\ faultsLeft' = faultsLeft - 1
  /\ Polled
  /\ UNCHANGED <<htype, close_cb, active_reqs, lpc, p, q, block, runRet,
                 procInCycle, procAt, procEnq, drainSet, runHistV, closeHistV,
                 phaseHistV, ndebug>>

\* a handle that waits for uv__finish_close is started again, or is marked
\* CLOSED
FaultFlags(h, f) ==
  /\ UserContext
  /\ faultsLeft > 0
  /\ {"CLOSING", "PENDING"} \subseteq flags[h]
  /\ flags[h] \cap {"ACTIVE", "CLOSED"} = {}
  /\ flags' = [flags EXCEPT ![h] = @ \cup {f}]
  /\ faultsLeft' = faultsLeft - 1
  /\ Polled
  /\ UNCHANGED <<htype, next_pending, close_cb, loopV, lpc, p, q, block, runRet,
                 drainHistV, runHistV, closeHistV, phaseHistV, ndebug>>

Fault ==
  \/ \E h \in Handles : FaultType(h) \/ FaultPending(h)
  \/ \E h \in Handles, f \in {"ACTIVE", "CLOSED"} : FaultFlags(h, f)

\* either build of the unit, and a bounded number of faults
FaultInit ==
  /\ PromiseStart
  /\ LoopFieldsStart
  /\ ndebug \in BOOLEAN
  /\ faultsLeft = MaxFaults
  /\ status = PENDING /\ result = NULL /\ code = 0 /\ waiting = 0

\* the loop with faults is followed for MaxFaultCycles cycles
FaultNext ==
  /\ LoopNext \/ Fault
  /\ cycle' <= MaxFaultCycles

FaultSpec == FaultInit /\ [][FaultNext /\ UNCHANGED pvars]_vars

(***************************************************************************)
(* Properties of the promise.                                              *)
(***************************************************************************)
Terminal == {FULFILLED, BROKEN, CANCELLED}

\* thread t takes a step of its own in a call of fulfil or break
RcStep(t) == pc[t] \in {"f_lock", "f_cs", "b_lock", "b_cs"} /\ pc'[t] # pc[t]

\* thread t calls trywait, which finds the mutex held and returns
FailedTrywait(t) ==
  /\ pc[t] = "idle" /\ pc'[t] = "idle"
  /\ ret'[t] # ret[t]
  /\ ret'[t].op = "trywait"

\* thread t takes a step of its own in a call of get or trywait
ReadStep(t) ==
  \/ pc[t] \in {"g_lock", "g_inc", "g_test", "g_relock", "t_read"} /\ pc'[t] # pc[t]
  \/ pc[t] = "idle" /\ pc'[t] \in {"g_lock", "t_read"}
  \/ FailedTrywait(t)

\* thread t returns from get or trywait in this step
ReadReturns(t) ==
  \/ pc[t] \in {"g_test", "t_read"} /\ pc'[t] = "idle"
  \/ FailedTrywait(t)

C1_AtMostOne ==
  /\ Cardinality(okCalls) <= 1
  /\ \A t \in Threads : ret[t].op \in {"fulfil", "break"} =>
                          ret[t].rc \in {0, -EINVAL}
  /\ \A w \in okCalls :
       /\ w.op = "fulfil" => status = FULFILLED /\ result = w.arg.result
       /\ w.op = "break" => status = BROKEN /\ code = w.arg.code

C1_FailedCallChangesNothing ==
  \A t \in Threads :
    RcStep(t) /\ (pc'[t] = "idle" => ret'[t].rc = -EINVAL) =>
      UNCHANGED <<status, result, code>>

\* C1: of the fulfil and break calls on one promise at most one returns 0;
\* every other call returns -EINVAL and leaves status, result and code as
\* they were; the stored status and result or code are those of the call
\* that returned 0.
C1_SingleTransition == []C1_AtMostOne /\ [][C1_FailedCallChangesNothing]_vars

\* a break call lost the race against a fulfil call
C1_Witness ==
  /\ status = FULFILLED
  /\ \E w \in okCalls : w.op = "fulfil"
  /\ \E t \in Threads : ret[t].op = "break" /\ ret[t].rc = -EINVAL

\* C2: uv_promise_get never returns a PENDING snapshot; after fulfil(v) it
\* returns FULFILLED with result v, after break(c) BROKEN with code c,
\* whether it slept through the transition or was called after it.
C2_GetReturnsPublished ==
  \A t \in Threads : ret[t].op = "get" =>
    /\ ret[t].rs.status # PENDING
    /\ published.kind = "fulfil" =>
         ret[t].rs.status = FULFILLED /\ ret[t].rs.result = published.result
    /\ published.kind = "break" =>
         ret[t].rs.status = BROKEN /\ ret[t].rs.code = published.code

\* one get slept through a break and another was called after it
C2_Witness ==
  /\ published.kind = "break"
  /\ \E a \in blockedAt, b \in Threads \ blockedAt :
       /\ ret[a].op = "get" /\ ret[a].rs.code = published.code
       /\ ret[b].op = "get" /\ ret[b].rs.code = published.code

InGet(t) == pc[t] \in {"g_lock", "g_inc", "g_test", "g_wait", "g_relock"}

\* a call of fulfil, break or destroy has been made
TerminalCalled ==
  \/ published.kind # "none"
  \/ destroyCalled
  \/ \E t \in Threads : pc[t] \in {"f_lock", "f_cs", "b_lock", "b_cs"}

\* C3: the threads asleep in uv_cond_wait when the terminal transition is
\* made are all woken, none stays asleep after it, and every one of them
\* returns from get with the snapshot of the terminal fields.
C3_WakeAll ==
  /\ [](status # PENDING => Asleep = {})
  /\ \A t \in Threads :
       [](t \in blockedAt /\ InGet(t) =>
            <>(ret[t].op = "get" /\ ret[t].rs = Fields))

\* C4: when destroy cancels a pending promise, every thread asleep in get
\* at that moment returns from get with {CANCELLED, 0, NULL}.
C4_DestroyCancels ==
  \A t \in Threads :
    [](published.kind = "destroy" /\ t \in blockedAt /\ InGet(t) =>
         <>(ret[t].op = "get" /\ ret[t].rs = CancelledSnapshot))

\* C5: if fulfil, break or destroy is ever called, every call of get
\* returns.
C5_GetReturns ==
  (<>TerminalCalled) => \A t \in Threads : [](InGet(t) => <>(ret[t].op = "get"))

C6_NeverWaits ==
  \A t \in Threads :
    /\ CanCall(t) => ENABLED TrywaitTry(t)
    /\ pc[t] = "t_read" => ENABLED TrywaitRead(t)

C6_Returned ==
  \A t \in Threads : ret[t].op = "trywait" =>
    /\ ret[t].locked => ret[t].rs.status = ret[t].real
    /\ ~ret[t].locked => ret[t].rs = PendingSnapshot
    /\ ret[t].rs.status # PENDING => ret[t].rs = Fields

\* C6: uv_promise_trywait never waits for the mutex: each of its steps can
\* be taken whatever the other threads do.  With the mutex it returns the
\* fields of the promise, without it {PENDING, 0, NULL}; so a status other
\* than PENDING that it returns is the status of the promise.
C6_Trywait == C6_NeverWaits /\ C6_Returned

\* trywait found the mutex held and returned PENDING for a fulfilled promise
C6_Witness ==
  \E t \in Threads :
    /\ ret[t].op = "trywait"
    /\ ret[t].rs.status = PENDING
    /\ ret[t].real = FULFILLED

C7_Monotonic ==
  /\ status' # status => status = PENDING /\ status' \in Terminal
  /\ status # PENDING => UNCHANGED <<status, result, code>>
  /\ \A t \in Threads : ReadStep(t) => UNCHANGED <<status, result, code>>

C7_ReadsStable ==
  \A t \in Threads :
    ReadReturns(t) /\ lastSeen[t] \in Terminal => lastSeen'[t] = lastSeen[t]

C7_ReadsStableButContended ==
  \A t \in Threads :
    ReadReturns(t) /\ lastSeen[t] \in Terminal =>
      \/ lastSeen'[t] = lastSeen[t]
      \/ ret'[t].op = "trywait" /\ ~ret'[t].locked /\ lastSeen'[t] = PENDING

\* C7 as stated: the status of an initialised promise changes at most once,
\* from PENDING to a terminal status; result and code do not change after
\* that; destroy does not cancel a fulfilled or broken promise; get and
\* trywait change nothing; and no thread reads a terminal status and then
\* another status.
C7_Original == [][life = "ready" => C7_Monotonic /\ C7_ReadsStable]_vars

\* C7 as amended: as stated, except that a trywait that finds the mutex held
\* reports PENDING also to a thread that has read a terminal status.
C7_Absorbing ==
  [][life = "ready" => C7_Monotonic /\ C7_ReadsStableButContended]_vars

\* destroy has returned and the promise is still fulfilled
C7_Witness ==
  /\ status = FULFILLED
  /\ \E t \in Threads : ret[t].op = "destroy"
  /\ \E t \in Threads : ret[t].op = "get" /\ ret[t].rs.status = FULFILLED

NoCallYet == callsLeft = MaxCalls

\* C8: uv_promise_init returns 0 exactly when the mutex and the condition
\* variable were both initialised, and the promise is then PENDING with no
\* result, code 0 and no waiter; a failed uv_mutex_init returns its error
\* with nothing allocated, and a failed uv_cond_init returns its error with
\* the mutex destroyed again.
C8_Init ==
  /\ life = "uninit" => mutexSt = "uninit" /\ condSt = "uninit"
  /\ life = "ready" <=> life # "uninit" /\ initRet = 0
  /\ life = "ready" /\ NoCallYet =>
       /\ mutexSt = "alive" /\ condSt = "alive"
       /\ status = PENDING /\ result = NULL /\ code = 0 /\ waiting = 0
  /\ life = "failed" =>
       /\ mutexSt # "alive" /\ condSt # "alive"
       /\ mutexSt = "uninit" <=> initRet \in MutexInitErrors
       /\ mutexSt = "destroyed" <=> initRet \in CondInitErrors

\* uv_cond_init failed and the mutex was destroyed again
C8_Witness == life = "failed" /\ mutexSt = "destroyed" /\ condSt = "uninit"

(***************************************************************************)
(* Properties of the reactor.                                              *)
(***************************************************************************)
\* the loop has no reason to run another cycle
NoWork ==
  /\ pending_handles = NoHandle
  /\ \A h \in Handles : ~uv__is_active(h)
  /\ active_reqs = 0

\* uv_run has returned 0 and the loop has nothing left
C9_Returned == lpc = "returned" => runRet = 0 /\ runCycles >= 1 /\ NoWork

\* at the end of a cycle uv_run returns exactly when nothing is left
C9_ReturnsExactly ==
  lpc = "ret" /\ lpc' # "ret" => (lpc' = "returned" <=> NoWork)

\* uv_run on the empty loop: one cycle, no callback, no wait, then the return
C9_EmptyLoop ==
  emptyAtCall /\ lpc # "out" =>
    /\ runCycles = 1
    /\ ~UserContext
    /\ lpc \in {"idle", "pending", "gate", "ret", "returned"}
    /\ lpc # "returned" =>
         ENABLED (RunIdle \/ RunPendingDetach \/ RunGate \/ RunReturn)

\* C9: uv_run runs cycles and returns 0 exactly after the first cycle at
\* whose end the pending queue is empty and no handle and no request is
\* active; it never returns while a handle is pending or a handle or a
\* request is active; on a loop with no handles, no requests and an empty
\* pending queue it runs exactly one cycle and returns.
C9_UvRun ==
  /\ []C9_Returned
  /\ []C9_EmptyLoop
  /\ [][C9_ReturnsExactly]_vars

\* uv_run has returned after more than one cycle, in which a handle was
\* closed, and before that it had returned from the empty loop
C9_Witness ==
  /\ lpc = "returned"
  /\ runCycles >= 2
  /\ \E h \in Handles : "CLOSED" \in flags[h]

C9_WitnessEmpty == lpc = "returned" /\ emptyAtCall /\ runCycles = 1

\* the cycle whose drain processes a handle enqueued at the stamp st
DrainCycle(st) == IF st.phase = "before" THEN st.cycle ELSE st.cycle + 1

\* the drain of the current cycle is over
Drained == lpc \in {"gate", "prepare", "poll", "check", "ret", "returned"}

\* the handles detached by the drain of this cycle and not yet taken
Detached ==
  IF lpc = "drain" THEN ListFrom(p, {})
  ELSE IF lpc \in {"finish", "closecb", "unref", "dispatch"} THEN ListFrom(q, {})
  ELSE {}

\* a handle is processed in the cycle of its enqueue when it was enqueued
\* before the drain, in the next one when it was enqueued in or after it
C10_Deferred ==
  \A h \in Handles : procAt[h] > 0 => procAt[h] = DrainCycle(procEnq[h])

\* a handle on the queue is not passed over by the drain it is due in
C10_NotSkipped ==
  \A h \in Handles : "PENDING" \in flags[h] =>
    /\ DrainCycle(enq[h]) >= cycle
    /\ Drained => DrainCycle(enq[h]) > cycle
    /\ DrainCycle(enq[h]) > cycle => h \in ListFrom(pending_handles, {})
    /\ DrainCycle(enq[h]) = cycle =>
         \/ lpc \in {"idle", "pending"} /\ h \in ListFrom(pending_handles, {})
         \/ h \in Detached

C10_OncePerEnqueue == \A h \in Handles : procOfEnq[h] <= 1

\* the handles on the queue at the start of the drain, and only they, are
\* processed in the cycle, once
C10_DrainsAll ==
  /\ \A h \in Handles : procInCycle[h] <= 1
  /\ \A h \in Handles : procInCycle[h] = 1 => h \in drainSet
  /\ Drained => \A h \in drainSet : procInCycle[h] = 1
  /\ lpc = "pending" => drainSet = {}
  /\ \A h \in drainSet : h \in Detached <=> procInCycle[h] = 0

\* C10: the drain detaches the whole pending queue before it dispatches, so
\* a handle enqueued while the drain of cycle k dispatches is processed in
\* the drain of cycle k+1: not in cycle k, not skipped, not twice for one
\* enqueue; every handle on the queue when the drain of cycle k started is
\* processed exactly once in cycle k.
C10_DrainDeferral ==
  /\ C10_Deferred
  /\ C10_NotSkipped
  /\ C10_OncePerEnqueue
  /\ C10_DrainsAll

\* a close callback of the drain of cycle k closed another handle, which
\* the drain of cycle k+1 has processed
C10_Witness ==
  \E h \in Handles :
    /\ procEnq[h].phase = "drain"
    /\ procEnq[h].cycle >= 1
    /\ procAt[h] = procEnq[h].cycle + 1
    /\ "CLOSING" \in flags[h]
    /\ Cardinality(drainSet) >= 1

\* the finalizer has run at most once, and only for a closed handle; its
\* callback, when there is one, was called with it
C11_Counts ==
  \A h \in Handles :
    /\ closedSets[h] <= 1
    /\ closedSets[h] <= closeCalls[h]
    /\ ("CLOSED" \in flags[h]) <=> (closedSets[h] = 1)
    /\ cbCalls[h] = IF closedSets[h] = 1 /\ close_cb[h] # "NULL" THEN 1 ELSE 0
    /\ closeCalls[h] = 0 => cbCalls[h] = 0

\* when uv_run has returned, every closed handle has been finalized
C11_Finalized ==
  lpc = "returned" =>
    \A h \in Handles : closeCalls[h] = 1 => closedSets[h] = 1

\* CLOSED is set on a handle that has CLOSING
C11_ClosedAfterClosing ==
  \A h \in Handles :
    "CLOSED" \notin flags[h] /\ "CLOSED" \in flags'[h] => "CLOSING" \in flags[h]

\* C11: for a handle on which uv_close is called once the finalizer runs
\* exactly once over any sequence of cycles: CLOSED is set once, and only
\* when CLOSING is set; the close callback, when one was supplied, is called
\* exactly once, and never for a handle on which uv_close was not called.
C11_CloseOnce ==
  /\ []C11_Counts
  /\ []C11_Finalized
  /\ [][C11_ClosedAfterClosing]_vars

\* uv_run has returned after three cycles with one handle finalized with a
\* callback and one without
C11_Witness ==
  /\ lpc = "returned"
  /\ cycle >= 3
  /\ \E h \in Handles : closedSets[h] = 1 /\ cbCalls[h] = 1
  /\ \E h \in Handles : closedSets[h] = 1 /\ cbCalls[h] = 0

\* the handles linked from the head of the loop or still to be taken by
\* the drain, in the next state
InQueueNext(h) ==
  \/ h \in ListFrom(pending_handles, {})'
  \/ h \in Detached'

\* what holds when uv_close(h, cb) returns
C12_AtReturn ==
  \A h \in Handles :
    closeCalls'[h] = closeCalls[h] + 1 /\ lpc' # "aborted" =>
      /\ {"CLOSING", "PENDING"} \subseteq flags'[h]
      /\ "CLOSED" \notin flags'[h]
      /\ InQueueNext(h)
      /\ cbCalls' = cbCalls
      /\ closedSets' = closedSets

\* CLOSED is set and the callback is called in the drain phase only, for
\* the handle the drain has taken
C12_InDrain ==
  \A h \in Handles :
    closedSets'[h] # closedSets[h] \/ cbCalls'[h] # cbCalls[h] =>
      lpc = "finish" /\ p = {h} /\ procInCycle[h] = 1

C12_RunWaits ==
  lpc = "returned" => \A h \in Handles : "CLOSING" \in flags[h] => "CLOSED" \in flags[h]

\* C12: when uv_close(h, cb) returns, h has CLOSING and is in the pending
\* queue and its callback has not been called; the finalizer runs in the
\* drain of a later cycle; so under uv_run every handle that was closed is
\* eventually finalized and uv_run does not return before.
C12_CloseDeferred ==
  /\ [][C12_AtReturn /\ C12_InDrain]_vars
  /\ []C12_RunWaits
  /\ \A h \in Handles :
       []("CLOSING" \in flags[h] /\ cycle < MaxCycles => <>("CLOSED" \in flags[h]))

\* the part of C12 that does not need the loop to go on
C12_Safety ==
  /\ [][C12_AtReturn /\ C12_InDrain]_vars
  /\ []C12_RunWaits

\* the phases of a cycle in their order
PhaseOrder == <<"idle", "pending", "prepare", "poll", "check">>

IsPrefix(s, t) == Len(s) <= Len(t) /\ \A i \in 1..Len(s) : s[i] = t[i]

\* the phases entered so far in the cycle are the first ones of the order,
\* each once, and the loop thread is in the last of them
C13_InOrder ==
  /\ IsPrefix(phases, PhaseOrder)
  /\ Cardinality({i \in 1..Len(phases) : phases[i] = "poll"}) <= 1
  /\ lpc = "idle" => phases = <<"idle">>
  /\ lpc \in {"pending", "drain", "finish", "closecb", "unref", "dispatch", "gate"}
       => phases = <<"idle", "pending">>
  /\ lpc = "prepare" => phases = <<"idle", "pending", "prepare">>
  /\ lpc = "poll" => phases = <<"idle", "pending", "prepare", "poll">>
  /\ lpc = "check" => phases = PhaseOrder
  /\ lpc = "ret" => phases \in {<<"idle", "pending">>, PhaseOrder}

\* the drain takes a handle after the idle phase of the cycle
C13_DrainAfterIdle ==
  \A h \in Handles :
    procInCycle'[h] = procInCycle[h] + 1 =>
      Len(phases) = 2 /\ phases[1] = "idle" /\ phases[2] = "pending"

\* C13: in a cycle the phases run in the order idle, pending drain, then,
\* when the test passes, prepare, poll, check: no handle is dispatched before
\* the idle hooks of the cycle, the poller is called at most once, after the
\* prepare hooks and before the check hooks, and no phase runs twice.
C13_PhaseOrder ==
  /\ []C13_InOrder
  /\ [][C13_DrainAfterIdle]_vars

\* the check phase of the second cycle, whose drain has taken a handle
C13_Witness ==
  /\ lpc = "check"
  /\ cycle >= 2
  /\ phases = PhaseOrder
  /\ \E h \in Handles : procInCycle[h] = 1

\* a step leaves alone the record of every handle whose close callback has
\* been called
C14_Untouched ==
  \A h \in Handles :
    cbCalls[h] >= 1 =>
      /\ flags'[h] = flags[h]
      /\ next_pending'[h] = next_pending[h]
      /\ htype'[h] = htype[h]
      /\ close_cb'[h] = close_cb[h]
      /\ ~(p = {h} /\ lpc = "unref" /\ lpc' # "unref")

\* C14: once the finalizer has called the close callback of a handle, the
\* reactor does not read or write the record of the handle again (flags,
\* links, reference accounting): not in the rest of the finalizer, not in
\* the rest of the drain, not in a later cycle.
C14_NoAccessAfterCallback == [][C14_Untouched]_vars

\* the loop has an active handle or an active request
HasWork == (\E h \in Handles : uv__is_active(h)) \/ active_reqs > 0

\* prepare, poll and check are entered in a cycle whose test found work, and
\* in no other
C15_OnlyWithWork ==
  /\ lpc \in {"prepare", "poll", "check"} => gate = "open"
  /\ Len(phases) >= 3 => gate = "open"
  /\ gate = "shut" =>
       /\ phases = <<"idle", "pending">>
       /\ lpc \in {"ret", "returned", "out"}

\* the test is made on the state the idle phase and the drain have left
C15_AtGate ==
  lpc = "gate" /\ lpc' # "gate" =>
    /\ lpc' = "prepare" => HasWork
    /\ ~HasWork => lpc' = "ret" /\ phases' = phases

IdleHookRegistered ==
  \E h \in Handles : htype[h] = "IDLE" /\ uv__is_active(h)

\* uv__poll is called, after the prepare hooks, to block exactly when no idle
\* hook is registered and a handle is active
C16_AtCall ==
  lpc = "prepare" /\ lpc' = "poll" =>
    (block' <=> (~IdleHookRegistered /\ \E h \in Handles : uv__is_active(h)))

\* nothing but a call of uv__poll is allowed to block
C16_OnlyPollBlocks == block => lpc = "poll"

\* C16: whenever the poller is called it is called to block if and only if
\* no idle hook is registered and at least one handle is active, as found
\* after the prepare hooks of the cycle; with an idle hook registered, or
\* with only requests active, it is called not to block.
C16_BlockingDecision ==
  /\ [][C16_AtCall]_vars
  /\ []C16_OnlyPollBlocks

\* the poller was called to block with an idle handle that is stopped, and
\* has not seen an event yet
C16_Witness ==
  /\ lpc = "poll"
  /\ block
  /\ ~polled
  /\ \E h \in Handles : htype[h] = "IDLE" /\ ~uv__is_active(h)

\* the poller was called not to block with only a request active
C16_WitnessRequest ==
  /\ lpc = "poll"
  /\ ~block
  /\ ~polled
  /\ active_reqs > 0
  /\ \A h \in Handles : ~uv__is_active(h)

\* the positions from which the next step of a thread locks, unlocks or
\* tries the mutex
AtMutex ==
  {"f_lock", "f_cs", "b_lock", "b_cs", "g_lock", "g_test", "g_relock",
   "t_read", "d_lock", "d_cs"}

\* the threads inside an operation are in get, asleep or woken, or in
\* destroy
WaitersAndDestroy ==
  \A t \in Threads :
    \/ pc[t] \in {"idle", "g_wait", "d_lock", "d_cs", "d_mutex", "d_cond"}
    \/ t \in blockedAt /\ pc[t] \in {"g_relock", "g_test"}

\* a thread uses the mutex while it is alive and the condition variable
\* while it is alive, and no use of them ends the process
C17_ValidUse ==
  /\ \A t \in Threads :
       /\ pc'[t] # pc[t] /\ pc[t] \in AtMutex => mutexSt = "alive"
       /\ pc'[t] # pc[t] /\ pc[t] = "g_wait" => condSt = "alive"
       /\ pc'[t] = "g_wait" => condSt = "alive" /\ mutexSt = "alive"
  /\ aborted' = aborted

\* C17: destroy while threads are blocked in get is free of races: every
\* woken waiter takes the mutex again, reads its snapshot and unlocks with
\* primitives that are still valid, and no thread locks, unlocks or waits on
\* the mutex or the condition variable after destroy has released them.
C17_DestroyRaceFree ==
  [][life = "ready" /\ WaitersAndDestroy => C17_ValidUse]_vars

\* the drain sends a handle that has CLOSING to the finalizer
C18_ClosingFinalized ==
  \A h \in Handles :
    lpc = "drain" /\ p = {h} /\ "CLOSING" \in flags[h] /\ lpc' # "drain" =>
      lpc' = "finish"

\* a handle that has CLOSED is not on the pending list, in the part still
\* with the loop or in the part the drain has detached
C18_ClosedOffQueue ==
  \A h \in Handles :
    "CLOSED" \in flags[h] =>
      /\ "PENDING" \notin flags[h]
      /\ h \notin ListFrom(pending_handles, {})
      /\ h \notin Detached

\* a handle that has CLOSED is not taken by a drain, dispatched or finalized
C18_ClosedIsFinal ==
  \A h \in Handles :
    "CLOSED" \in flags[h] =>
      /\ procInCycle'[h] <= procInCycle[h]
      /\ closedSets'[h] = closedSets[h]
      /\ cbCalls'[h] = cbCalls[h]
      /\ "CLOSED" \in flags'[h]
      /\ ~(lpc # "dispatch" /\ lpc' = "dispatch" /\ p = {h})
      /\ ~(lpc # "finish" /\ lpc' = "finish" /\ p = {h})

\* C18: a handle taken from the pending queue with CLOSING goes to the
\* close finalizer and never to the dispatcher of its type, also when it was
\* enqueued for an event before uv_close; a handle that has CLOSED is never
\* dispatched again, never finalized again and never on the queue again.
C18_ClosingWins ==
  /\ [][C18_ClosingFinalized /\ C18_ClosedIsFinal]_vars
  /\ []C18_ClosedOffQueue

\* the finalizer has a stream that was enqueued for an event and closed
\* while on the queue, and another handle is closed already
C18_Witness ==
  \E h \in Handles :
    /\ lpc = "finish"
    /\ p = {h}
    /\ procEnq[h].by = "event"
    /\ \E g \in Handles \ {h} : "CLOSED" \in flags[g]

(***************************************************************************)
(* C19                                                                     *)
(***************************************************************************)
\* the handle the drain or uv__finish_close is working on
Current == CHOOSE x \in p : TRUE

\* the drain takes a handle that is not closing and has no dispatcher
C19_NoDispatcher ==
  /\ lpc = "drain" /\ p # NoHandle /\ lpc' # lpc
  /\ "CLOSING" \notin flags[Current]
  /\ htype[Current] \notin StreamTypes

\* uv_close is called on a handle of unknown type
C19_CloseUnknown ==
  \E h \in Handles : /\ closeCalls'[h] = closeCalls[h] + 1
                     /\ htype[h] \notin KnownTypes

\* uv__finish_close gets a handle that is active, is not CLOSING, is CLOSED
\* already or has an unknown type
C19_BadFinish ==
  /\ lpc = "finish" /\ lpc' # lpc
  /\ \/ uv__is_active(Current)
     \/ "CLOSING" \notin flags[Current]
     \/ "CLOSED" \in flags[Current]
     \/ htype[Current] \notin KnownTypes

\* the process is gone: nothing of the loop changes any more
C19_Dead == lpc = "aborted" => UNCHANGED lvars

\* C19: a handle that is not closing and has no pending dispatcher, on
\* reaching the drain, a handle of unknown type, on reaching uv_close or
\* uv__finish_close, and a handle that is active, is not CLOSING or is CLOSED
\* already, on reaching uv__finish_close, abort the process, and no close
\* callback is called in that step or after it
C19_AbortsOnViolation ==
  [][/\ C19_NoDispatcher \/ C19_CloseUnknown \/ C19_BadFinish
          => lpc' = "aborted" /\ cbCalls' = cbCalls
     /\ C19_Dead]_vars

(***************************************************************************)
(* C20                                                                     *)
(***************************************************************************)
\* the threads that have done the increment of uv_promise_get and not yet
\* the decrement
Counted == {t \in Threads : pc[t] \in {"g_test", "g_wait", "g_relock"}}

C20_Count ==
  /\ waiting = Cardinality(Counted)
  /\ waiting >= 0
  /\ Asleep # {} => waiting > 0
  /\ (\A t \in Threads : ~InGet(t)) => waiting = 0

\* a step that makes the status terminal wakes every thread that is asleep
C20_Broadcast ==
  status = PENDING /\ status' # PENDING
    => \A t \in Asleep : pc'[t] = "g_relock"

\* C20: waiting is the number of threads between the increment and the
\* decrement of uv_promise_get: it is never negative, it is positive while a
\* thread sleeps on the condition variable and 0 while no get is in progress,
\* so that no terminal transition skips the broadcast while a thread sleeps
C20_WaiterCount == [](life = "ready" => C20_Count) /\ [][C20_Broadcast]_vars

\* two waiters were counted and asleep, and a terminal transition woke both
C20_Witness ==
  /\ waiting = 2
  /\ status # PENDING
  /\ Cardinality({t \in Threads : pc[t] = "g_relock"}) = 2

(***************************************************************************)
(* C21                                                                     *)
(***************************************************************************)
\* the handles linked from ptr in the order of the links, at most n of them
RECURSIVE ListSeq(_, _)
ListSeq(ptr, n) ==
  IF ptr = NoHandle \/ n = 0
    THEN <<>>
    ELSE LET h == CHOOSE x \in ptr : TRUE IN
           <<h>> \o ListSeq(next_pending[h], n - 1)

\* the head of what is left of the list the drain has detached
DetachedHead ==
  IF lpc = "drain" THEN p
  ELSE IF lpc \in {"finish", "closecb", "unref", "dispatch"} THEN q
  ELSE NoHandle

\* the pending list of the loop followed by the rest of the detached list;
\* a list that runs in a circle shows as a handle that appears twice
Linked ==
  ListSeq(pending_handles, NHandles + 1) \o ListSeq(DetachedHead, NHandles + 1)

C21_AtMostOnce ==
  \A i, j \in 1..Len(Linked) : Linked[i] = Linked[j] => i = j

C21_FlagIsLinked ==
  \A h \in Handles :
    "PENDING" \in flags[h] <=> \E i \in 1..Len(Linked) : Linked[i] = h

C21_NullLink ==
  \A h \in Handles :
    htype[h] # NoType /\ "PENDING" \notin flags[h] => next_pending[h] = NoHandle

\* the drain hands a handle to uv__finish_close or to its dispatcher with
\* PENDING and next_pending cleared
C21_ClearedFirst ==
  lpc = "drain" /\ lpc' \in {"finish", "dispatch"}
    => /\ "PENDING" \notin flags'[Current]
       /\ next_pending'[Current] = NoHandle

\* C21: a handle is at most once in the pending list of the loop and the
\* detached list that is being drained, taken together; it has PENDING
\* exactly when it is linked there and not yet taken by the drain; the drain
\* clears PENDING and next_pending before it dispatches or finalizes the
\* handle; next_pending is null for every handle that is not PENDING, a
\* handle that has just been initialised included
C21_PendingQueue ==
  /\ [](C21_AtMostOnce /\ C21_FlagIsLinked /\ C21_NullLink)
  /\ [][C21_ClearedFirst]_vars

\* in the callback of a stream the drain has taken: the rest of the detached
\* list waits, and the stream is pending again, on the new list of the loop
C21_Witness ==
  /\ lpc = "dispatch"
  /\ q # NoHandle
  /\ pending_handles = p
  /\ "PENDING" \in flags[Current]

====
